---------------------------- MODULE Spec2Model ----------------------------
(***************************************************************************)
(* Application driver of the ray tracer (src/src/main.rs): RenderApp, its   *)
(* per-frame update, the keyboard-driven camera pose and the conversion of  *)
(* the pixel buffer into the image handed to the display.                   *)
(*                                                                          *)
(* Scalars.  The camera origin is moved by float additions of the literal   *)
(* 0.1; these are modelled as IEEE binary32 additions (round to nearest,    *)
(* ties to even) on integers counting units of 2^-27, the spacing of the    *)
(* binary32 grid around 0.1.  The forward direction is rotated through      *)
(* atan2, sqrt, cos and sin; these are computed here in decimal fixed       *)
(* point with eight fractional digits (unit 1e-8), every operation rounded, *)
(* so that the polar round trip really loses precision as it does in the    *)
(* program.  The scalar type itself is that of Ray's vectors, declared in   *)
(* the renderer module.                                                     *)
(***************************************************************************)
EXTENDS Integers, Sequences, FiniteSets, TLC

VARIABLES
    app,          \* the RenderApp: buffer, camera, scene, frame_counter, frame_count
    pc,           \* position of the host / of RenderApp::update
    keys_down,    \* inputs.keys_down of the frame being updated
    pending,      \* keys of the `for pressed in &inputs.keys_down` loop not yet visited
    img,          \* the image last handed to the display (img.show)
    steps,        \* the steps update has performed in the current frame, in order
    renders,      \* number of calls of create_buffer so far
    shown,        \* the frame_count argument last passed to FrameCounter::show
    pose0,        \* camera.location when the current update started
    grid,         \* a concrete pixel buffer (rows of pixels) for buffer_to_image
    image         \* the ColorImage produced from grid

vars == <<app, pc, keys_down, pending, img, steps, renders, shown, pose0, grid, image>>

---------------------------------------------------------------------------
(* Bounds of the exploration *)

MaxFrames == 2        \* frames per run when every key set is allowed
MaxKeysDown == 2      \* keys held together in one snapshot
MaxHoldW == 15        \* frames per run when W is held throughout
MaxTurn == 628        \* frames per run when one arrow key is held throughout
MaxPermFrames == 3    \* frames per run when any subset of PermKeys may be held
MaxRows == 2          \* rows of a concrete buffer
MaxCols == 2          \* pixels per row of a concrete buffer

---------------------------------------------------------------------------
(* Scalar arithmetic *)

Abs(a) == IF a < 0 THEN 0 - a ELSE a

Sgn(a) == IF a < 0 THEN 0 - 1 ELSE 1

\* n / d rounded to the nearest integer, n >= 0, d > 0
RDiv(n, d) == (2 * n + d) \div (2 * d)

(* IEEE binary32, values as multiples of 2^-27, |value| < 16 *)

RECURSIVE Quantum(_, _)
\* the spacing of the binary32 grid at magnitude m: the least power of two q
\* with m / q < 2^24
Quantum(m, q) == IF m \div q < 16777216 THEN q ELSE Quantum(m, 2 * q)

\* round to 24 significant bits, ties to even
F32Round(v) ==
    LET m == Abs(v)
        q == Quantum(m, 1)
        lo == (m \div q) * q
        rem == m - lo
        up == \/ 2 * rem > q
              \/ (2 * rem = q /\ (m \div q) % 2 = 1)
    IN  Sgn(v) * (IF up THEN lo + q ELSE lo)

F32Add(a, b) == F32Round(a + b)

\* the literal 0.1 as binary32: 13421773 * 2^-27
Tenth == 13421773

\* 1.0 and 10.0 in units of 2^-27
F32One == 134217728

(* decimal fixed point, unit 1e-8 *)

S == 100000000

T == 10000

PI == 314159265

HALFPI == 157079633

EIGHTHPI == 39269908

\* 0.01 rad
Step == 1000000

\* |a| * |b| / S rounded, without leaving 32-bit range (a, b < 4.6e8)
MulAbs(a, b) ==
    LET a1 == a \div T
        a0 == a % T
        b1 == b \div T
        b0 == b % T
    IN  a1 * b1 + RDiv(a1 * b0 + a0 * b1 + RDiv(a0 * b0, T), T)

Mul(a, b) == Sgn(a) * Sgn(b) * MulAbs(Abs(a), Abs(b))

RECURSIVE DivDigits(_, _, _, _)
\* decimal long division: i more digits of rem / b
DivDigits(rem, b, q, i) ==
    IF i = 0 THEN q
    ELSE DivDigits((rem * 10) % b, b, q * 10 + ((rem * 10) \div b), i - 1)

\* a / b in fixed point, |a| < |b| < 2.1e8
Div(a, b) == Sgn(a) * Sgn(b) * DivDigits(Abs(a), Abs(b), 0, 8)

RECURSIVE Series(_, _, _, _)
\* sum of the alternating Taylor series whose next term is
\* -term * a2 / (k * (k + 1)), until the terms vanish
Series(term, a2, k, acc) ==
    IF term = 0 THEN acc
    ELSE Series((0 - Sgn(term)) * RDiv(MulAbs(Abs(term), a2), k * (k + 1)),
                a2, k + 2, acc + term)

\* sine and cosine on [0, pi/2]
Sin0(a) == Series(a, Mul(a, a), 2, 0)

Cos0(a) == Series(S, Mul(a, a), 1, 0)

\* sine and cosine on [-pi - 0.01, pi + 0.01]
Sin(a) ==
    LET b == Abs(a)
        v == IF b > PI THEN 0 - Sin0(b - PI)
             ELSE IF b > HALFPI THEN Sin0(PI - b)
             ELSE Sin0(b)
    IN  Sgn(a) * v

Cos(a) ==
    LET b == Abs(a)
    IN  IF b > PI THEN 0 - Cos0(b - PI)
        ELSE IF b > HALFPI THEN 0 - Cos0(PI - b)
        ELSE Cos0(b)

RECURSIVE Newton(_, _, _, _)
\* the angle of (x, y), 0 <= y <= x, x > 0, by Newton's iteration on
\* x sin(th) - y cos(th) = 0
Newton(y, x, th, i) ==
    IF i = 0 THEN th
    ELSE LET c == Cos0(th)
             s == Sin0(th)
             n == Mul(y, c) - Mul(x, s)
             d == Mul(x, c) + Mul(y, s)
         IN  Newton(y, x, th + Div(n, d), i - 1)

\* the angle of (x, y) in the first quadrant
AtanQ(y, x) ==
    IF y <= x THEN Newton(y, x, EIGHTHPI, 4)
    ELSE HALFPI - Newton(x, y, EIGHTHPI, 4)

\* f32::atan2: the angle of (x, y) in [-pi, pi]
Atan2(y, x) ==
    IF x = 0 /\ y = 0 THEN 0
    ELSE IF x >= 0 /\ y >= 0 THEN AtanQ(y, x)
    ELSE IF x < 0 /\ y >= 0 THEN PI - AtanQ(y, 0 - x)
    ELSE IF x < 0 /\ y < 0 THEN 0 - (PI - AtanQ(0 - y, 0 - x))
    ELSE 0 - AtanQ(0 - y, x)

RECURSIVE SqrtSearch(_, _, _)
\* the largest r in lo..hi with r * r <= s
SqrtSearch(s, lo, hi) ==
    IF lo >= hi THEN lo
    ELSE LET m == (lo + hi + 1) \div 2
         IN  IF MulAbs(m, m) <= s THEN SqrtSearch(s, m, hi)
             ELSE SqrtSearch(s, lo, m - 1)

\* f32::sqrt on [0, 4]
Sqrt(s) == SqrtSearch(s, 0, 2 * S)

---------------------------------------------------------------------------
(* The program *)

\* egui::Key: the eight keys update matches, and one it does not
Keys == {"W", "S", "A", "D", "Z", "X", "ArrowLeft", "ArrowRight", "Space"}

\* let width = 500; let height = 800;
width == 500

height == 800

\* Ray::new_preserve(ray_location, ray_direction): the direction as given
new_preserve(ray_location, ray_direction) ==
    [origin |-> ray_location, direction |-> ray_direction]

\* nalgebra::Vector3::new(-10.0, 0.0, 0.0), in units of 2^-27
ray_location == [x |-> (0 - 10) * F32One, y |-> 0, z |-> 0]

\* nalgebra::Vector3::new(1.0, 0.0, 0.0), in units of 1e-8
ray_direction == [x |-> S, y |-> 0, z |-> 0]

\* Camera::create_buffer(&self, scene): height rows of width pixels, each
\* pixel a function of the camera pose and of the scene alone
create_buffer(camera, scene) ==
    [rows |-> camera.height, cols |-> camera.width, rendered |-> TRUE,
     location |-> camera.location, scene |-> scene]

\* RenderApp::default()
RenderAppDefault ==
    LET camera == [location |-> new_preserve(ray_location, ray_direction),
                   width |-> width, height |-> height]
    IN  [buffer |-> [rows |-> height, cols |-> width, rendered |-> FALSE,
                     location |-> camera.location, scene |-> "none"],
         camera |-> camera,
         scene |-> "pondering_orbs",
         frame_counter |-> [frame_count |-> 0],
         frame_count |-> 0]

\* variant: the scene is moved into the renderer instead of borrowed
update_buffer_moves_scene(self) ==
    [self EXCEPT !.buffer = create_buffer(self.camera, self.scene),
                 !.scene = "moved"]

\* RenderApp::update_buffer_sharedstate(&mut self)
update_buffer_sharedstate(self) ==
    [self EXCEPT !.buffer = create_buffer(self.camera, self.scene)]

\* the ColorImage of the driver's buffer: its size is
\* [self.buffer[0].len(), self.buffer.len()], its pixels those of the buffer
color_image(buffer) ==
    [size |-> <<buffer.cols, buffer.rows>>, rendered |-> buffer.rendered,
     location |-> buffer.location, scene |-> buffer.scene]

\* variant: the counter is advanced by two
increment_twice(frame_count) == frame_count + 2

\* *self.frame_count.borrow_mut() += 1
increment(frame_count) == frame_count + 1

\* FrameCounter::show -> FrameCounter::update(frame_count)
show(frame_counter, frame_count) ==
    [frame_counter EXCEPT !.frame_count = frame_count]

\* variant: the ArrowLeft arm is a copy of the ArrowRight arm
ArrowLeftAdds(camera) ==
    LET x == camera.location.direction.x
        y == camera.location.direction.y
        theta == Atan2(y, x)
        r == Sqrt(Mul(x, x) + Mul(y, y))
        theta_1 == theta + Step
        x_1 == Mul(Cos(theta_1), r)
        y_1 == Mul(Sin(theta_1), r)
    IN  [camera EXCEPT !.location.direction.x = x_1,
                       !.location.direction.y = y_1]

\* Key::ArrowLeft arm
ArrowLeft(camera) ==
    LET x == camera.location.direction.x
        y == camera.location.direction.y
        theta == Atan2(y, x)
        r == Sqrt(Mul(x, x) + Mul(y, y))
        theta_1 == theta - Step
        x_1 == Mul(Cos(theta_1), r)
        y_1 == Mul(Sin(theta_1), r)
    IN  [camera EXCEPT !.location.direction.x = x_1,
                       !.location.direction.y = y_1]

\* variant: y_1 is computed with cos like x_1
ArrowRightCosTwice(camera) ==
    LET x == camera.location.direction.x
        y == camera.location.direction.y
        theta == Atan2(y, x)
        r == Sqrt(Mul(x, x) + Mul(y, y))
        theta_1 == theta + Step
        x_1 == Mul(Cos(theta_1), r)
        y_1 == Mul(Cos(theta_1), r)
    IN  [camera EXCEPT !.location.direction.x = x_1,
                       !.location.direction.y = y_1]

\* Key::ArrowRight arm
ArrowRight(camera) ==
    LET x == camera.location.direction.x
        y == camera.location.direction.y
        theta == Atan2(y, x)
        r == Sqrt(Mul(x, x) + Mul(y, y))
        theta_1 == theta + Step
        x_1 == Mul(Cos(theta_1), r)
        y_1 == Mul(Sin(theta_1), r)
    IN  [camera EXCEPT !.location.direction.x = x_1,
                       !.location.direction.y = y_1]

\* variant: the A arm moves x instead of y
HandleKeyAMovesX(camera, pressed) ==
    CASE pressed = "W" ->
            [camera EXCEPT !.location.origin.x = F32Add(@, Tenth)]
      [] pressed = "S" ->
            [camera EXCEPT !.location.origin.x = F32Add(@, 0 - Tenth)]
      [] pressed = "A" ->
            [camera EXCEPT !.location.origin.x = F32Add(@, 0 - Tenth)]
      [] pressed = "D" ->
            [camera EXCEPT !.location.origin.y = F32Add(@, Tenth)]
      [] pressed = "Z" ->
            [camera EXCEPT !.location.origin.z = F32Add(@, Tenth)]
      [] pressed = "X" ->
            [camera EXCEPT !.location.origin.z = F32Add(@, 0 - Tenth)]
      [] pressed = "ArrowLeft" ->
            ArrowLeft(camera)
      [] pressed = "ArrowRight" ->
            ArrowRight(camera)
      [] OTHER -> camera

\* variant: the W arm subtracts like the S arm
HandleKeyWBackwards(camera, pressed) ==
    CASE pressed = "W" ->
            [camera EXCEPT !.location.origin.x = F32Add(@, 0 - Tenth)]
      [] pressed = "S" ->
            [camera EXCEPT !.location.origin.x = F32Add(@, 0 - Tenth)]
      [] pressed = "A" ->
            [camera EXCEPT !.location.origin.y = F32Add(@, 0 - Tenth)]
      [] pressed = "D" ->
            [camera EXCEPT !.location.origin.y = F32Add(@, Tenth)]
      [] pressed = "Z" ->
            [camera EXCEPT !.location.origin.z = F32Add(@, Tenth)]
      [] pressed = "X" ->
            [camera EXCEPT !.location.origin.z = F32Add(@, 0 - Tenth)]
      [] pressed = "ArrowLeft" ->
            ArrowLeft(camera)
      [] pressed = "ArrowRight" ->
            ArrowRight(camera)
      [] OTHER -> camera

\* variant: the A arm assigns -0.1 (= -0.1 for -= 0.1)
HandleKeyAAssigns(camera, pressed) ==
    CASE pressed = "W" ->
            [camera EXCEPT !.location.origin.x = F32Add(@, Tenth)]
      [] pressed = "S" ->
            [camera EXCEPT !.location.origin.x = F32Add(@, 0 - Tenth)]
      [] pressed = "A" ->
            [camera EXCEPT !.location.origin.y = 0 - Tenth]
      [] pressed = "D" ->
            [camera EXCEPT !.location.origin.y = F32Add(@, Tenth)]
      [] pressed = "Z" ->
            [camera EXCEPT !.location.origin.z = F32Add(@, Tenth)]
      [] pressed = "X" ->
            [camera EXCEPT !.location.origin.z = F32Add(@, 0 - Tenth)]
      [] pressed = "ArrowLeft" ->
            ArrowLeft(camera)
      [] pressed = "ArrowRight" ->
            ArrowRight(camera)
      [] OTHER -> camera

\* the match on one pressed key
HandleKey(camera, pressed) ==
    CASE pressed = "W" ->
            [camera EXCEPT !.location.origin.x = F32Add(@, Tenth)]
      [] pressed = "S" ->
            [camera EXCEPT !.location.origin.x = F32Add(@, 0 - Tenth)]
      [] pressed = "A" ->
            [camera EXCEPT !.location.origin.y = F32Add(@, 0 - Tenth)]
      [] pressed = "D" ->
            [camera EXCEPT !.location.origin.y = F32Add(@, Tenth)]
      [] pressed = "Z" ->
            [camera EXCEPT !.location.origin.z = F32Add(@, Tenth)]
      [] pressed = "X" ->
            [camera EXCEPT !.location.origin.z = F32Add(@, 0 - Tenth)]
      [] pressed = "ArrowLeft" -> ArrowLeft(camera)
      [] pressed = "ArrowRight" -> ArrowRight(camera)
      [] OTHER -> camera

\* variant: the loop over the keys is left after its first iteration
NextPcBreaks(p, left) ==
    CASE p = "render" -> "image"
      [] p = "image" -> "count"
      [] p = "count" -> "overlay"
      [] p = "overlay" -> "input"
      [] p = "input" -> "keys"
      [] p = "keys" -> "idle"

\* the order of the statements of RenderApp::update: the position after the
\* one at p, given the keys the loop has still to visit
NextPc(p, left) ==
    CASE p = "render" -> "image"
      [] p = "image" -> "count"
      [] p = "count" -> "overlay"
      [] p = "overlay" -> "input"
      [] p = "input" -> "keys"
      [] p = "keys" -> IF left = {} THEN "idle" ELSE "keys"

---------------------------------------------------------------------------
(* State machine *)

Init ==
    /\ app = RenderAppDefault
    /\ pc = "idle"
    /\ keys_down = {}
    /\ pending = {}
    /\ img = color_image(RenderAppDefault.buffer)
    /\ steps = <<>>
    /\ renders = 0
    /\ shown = 0
    /\ pose0 = RenderAppDefault.camera.location
    /\ grid = <<>>
    /\ image = [size |-> <<0, 0>>, data |-> <<>>]

\* the host calls update for the next frame; ctx carries the keys held
BeginFrame(K, limit) ==
    /\ pc = "idle"
    /\ renders < limit
    /\ pc' = "render"
    /\ keys_down' = K
    /\ steps' = <<>>
    /\ pose0' = app.camera.location
    /\ UNCHANGED <<app, pending, img, renders, shown, grid, image>>

\* self.update_buffer_sharedstate()
UpdateBuffer ==
    /\ pc = "render"
    /\ app' = update_buffer_sharedstate(app)
    /\ renders' = renders + 1
    /\ steps' = Append(steps, "render")
    /\ pc' = NextPc(pc, pending)
    /\ UNCHANGED <<keys_down, pending, img, shown, pose0, grid, image>>

\* RetainedImage::from_color_image(.., self.buffer_to_image()); img.show(ui)
ShowImage ==
    /\ pc = "image"
    /\ img' = color_image(app.buffer)
    /\ steps' = Append(steps, "display")
    /\ pc' = NextPc(pc, pending)
    /\ UNCHANGED <<app, keys_down, pending, renders, shown, pose0, grid, image>>

\* *self.frame_count.borrow_mut() += 1
IncFrameCount ==
    /\ pc = "count"
    /\ app' = [app EXCEPT !.frame_count = increment(@)]
    /\ steps' = Append(steps, "count")
    /\ pc' = NextPc(pc, pending)
    /\ UNCHANGED <<keys_down, pending, img, renders, shown, pose0, grid, image>>

\* self.frame_counter.borrow_mut().show(ctx, *self.frame_count.borrow())
ShowCounter ==
    /\ pc = "overlay"
    /\ app' = [app EXCEPT !.frame_counter = show(@, app.frame_count)]
    /\ shown' = app.frame_count
    /\ pc' = NextPc(pc, pending)
    /\ UNCHANGED <<keys_down, pending, img, steps, renders, pose0, grid, image>>

\* ctx.input(|inputs| ..): the loop over inputs.keys_down begins
ReadInput ==
    /\ pc = "input"
    /\ pending' = keys_down
    /\ steps' = Append(steps, "keys")
    /\ pc' = NextPc(pc, keys_down)
    /\ UNCHANGED <<app, keys_down, img, renders, shown, pose0, grid, image>>

\* one iteration of the loop; a HashSet yields its keys in any order
PressedKey(pressed) ==
    /\ pc = "keys"
    /\ pressed \in pending
    /\ app' = [app EXCEPT !.camera = HandleKey(@, pressed)]
    /\ pending' = pending \ {pressed}
    /\ pc' = NextPc(pc, pending)
    /\ UNCHANGED <<keys_down, img, steps, renders, shown, pose0, grid, image>>

\* the loop has visited every key: update returns
EndUpdate ==
    /\ pc = "keys"
    /\ pending = {}
    /\ pc' = NextPc(pc, pending)
    /\ UNCHANGED <<app, keys_down, pending, img, steps, renders, shown, pose0, grid, image>>

Update ==
    \/ UpdateBuffer
    \/ ShowImage
    \/ IncFrameCount
    \/ ShowCounter
    \/ ReadInput
    \/ \E pressed \in Keys : PressedKey(pressed)
    \/ EndUpdate

\* every snapshot of at most MaxKeysDown keys
KeySets == {K \in SUBSET Keys : Cardinality(K) <= MaxKeysDown}

Next ==
    \/ \E K \in KeySets : BeginFrame(K, MaxFrames)
    \/ Update

Spec == Init /\ [][Next]_vars

---------------------------------------------------------------------------
(* Other input regimes of the same program *)

\* W is held in every frame
NextHoldW ==
    \/ BeginFrame({"W"}, MaxHoldW)
    \/ Update

SpecHoldW == Init /\ [][NextHoldW]_vars

\* one arrow key is pressed before the first frame and held ever after
NextTurn ==
    \/ \E K \in {{"ArrowLeft"}, {"ArrowRight"}} :
          /\ renders = 0 \/ K = keys_down
          /\ BeginFrame(K, MaxTurn)
    \/ Update

SpecTurn == Init /\ [][NextTurn]_vars

\* any combination of the forward, strafe and turn keys, in any order
PermKeys == {"W", "A", "D", "ArrowLeft", "ArrowRight"}

NextPerm ==
    \/ \E K \in SUBSET PermKeys : BeginFrame(K, MaxPermFrames)
    \/ Update

SpecPerm == Init /\ [][NextPerm]_vars

---------------------------------------------------------------------------
(* buffer_to_image on concrete buffers *)

\* Rgba values (premultiplied linear colour): black as from_gray(0.0),
\* opaque white, fully transparent
Pixels == {"black", "white", "clear"}

\* Rgba::to_srgba_unmultiplied
to_srgba_unmultiplied(pixel) ==
    CASE pixel = "black" -> <<0, 0, 0, 255>>
      [] pixel = "white" -> <<255, 255, 255, 255>>
      [] pixel = "clear" -> <<0, 0, 0, 0>>

RECURSIVE FlattenRow(_)
\* for pixel in row { for v in values { flattened.push(v) } }
FlattenRow(row) ==
    IF row = <<>> THEN <<>>
    ELSE to_srgba_unmultiplied(Head(row)) \o FlattenRow(Tail(row))

RECURSIVE Flatten(_)
\* for row in &self.buffer { .. }
Flatten(buffer) ==
    IF buffer = <<>> THEN <<>>
    ELSE FlattenRow(Head(buffer)) \o Flatten(Tail(buffer))

\* variant: the size is given as [rows, columns]
buffer_to_image_swapped(buffer) ==
    [size |-> <<Len(buffer), Len(buffer[1])>>, data |-> Flatten(buffer)]

\* RenderApp::buffer_to_image(&self)
buffer_to_image(buffer) ==
    [size |-> <<Len(buffer[1]), Len(buffer)>>, data |-> Flatten(buffer)]

\* rectangular buffers of 1..MaxRows rows of 0..MaxCols pixels
Grids ==
    UNION {[1..h -> [1..w -> Pixels]] : h \in 1..MaxRows, w \in 0..MaxCols}

InitImage ==
    /\ app = RenderAppDefault
    /\ pc = "idle"
    /\ keys_down = {}
    /\ pending = {}
    /\ img = color_image(RenderAppDefault.buffer)
    /\ steps = <<>>
    /\ renders = 0
    /\ shown = 0
    /\ pose0 = RenderAppDefault.camera.location
    /\ grid \in Grids
    /\ image = [size |-> <<0, 0>>, data |-> <<>>]

\* the buffer is converted once
Convert ==
    /\ image.size = <<0, 0>>
    /\ image' = buffer_to_image(grid)
    /\ UNCHANGED <<app, pc, keys_down, pending, img, steps, renders, shown, pose0, grid>>

NextImage == Convert

SpecImage == InitImage /\ [][NextImage]_vars

---------------------------------------------------------------------------
(* Properties *)

\* one binary32 spacing in [8, 16): 2^-20, in units of 2^-27
F32Ulp == F32One \div 1048576

\* 1e-6 in the units of the origin and of the direction
OriginTol == F32One \div 1000000

DirTol == S \div 1000000

\* 1e-5 rad
AngTol == S \div 100000

\* 1e-2 in the units of the direction
Hundredth == S \div 100

TWOPI == 2 * PI

Origin == app.camera.location.origin

Direction == app.camera.location.direction

InitialLocation == RenderAppDefault.camera.location

\* the loop over the keys handles key k in this step
KeyStep(k) == pc = "keys" /\ k \in pending /\ pending' = pending \ {k}

\* the loop over the keys of this frame has visited every key
LoopDone == pc = "keys" /\ pending = {}

\* sqrt(fx^2 + fy^2)
Magnitude(d) == Sqrt(Mul(d.x, d.x) + Mul(d.y, d.y))

\* distance of two angles on the circle
AngleDist(a, b) ==
    LET d == (a - b) % TWOPI
    IN  IF d <= PI THEN d ELSE TWOPI - d

\* the table of translation keys: the change of (x, y, z) in tenths
Delta(k) ==
    CASE k = "W" -> <<1, 0, 0>>
      [] k = "S" -> <<0 - 1, 0, 0>>
      [] k = "A" -> <<0, 0 - 1, 0>>
      [] k = "D" -> <<0, 1, 0>>
      [] k = "Z" -> <<0, 0, 1>>
      [] k = "X" -> <<0, 0, 0 - 1>>
      [] OTHER -> <<0, 0, 0>>

\* component new is component old moved by d tenths: exactly unchanged for
\* d = 0, and old + 0.1 d up to the rounding of one addition otherwise
MovedBy(old, new, d) ==
    IF d = 0 THEN new = old ELSE Abs(new - old - d * Tenth) <= OriginTol

\* two locations agree up to 1e-6 in every component
Close(a, b) ==
    /\ Abs(a.origin.x - b.origin.x) <= OriginTol
    /\ Abs(a.origin.y - b.origin.y) <= OriginTol
    /\ Abs(a.origin.z - b.origin.z) <= OriginTol
    /\ Abs(a.direction.x - b.direction.x) <= DirTol
    /\ Abs(a.direction.y - b.direction.y) <= DirTol
    /\ a.direction.z = b.direction.z

KeyOrder == <<"W", "S", "A", "D", "Z", "X", "ArrowLeft", "ArrowRight", "Space">>

RECURSIVE ApplyInOrder(_, _, _)
\* the keys of K handled in the order of KeyOrder, from its i-th on
ApplyInOrder(camera, K, i) ==
    IF i > Len(KeyOrder) THEN camera
    ELSE ApplyInOrder(IF KeyOrder[i] \in K THEN HandleKey(camera, KeyOrder[i])
                      ELSE camera, K, i + 1)

\* the location this frame's keys give when handled in the order of KeyOrder
InOrderLocation ==
    ApplyInOrder([app.camera EXCEPT !.location = pose0], keys_down, 1).location

\* C1: every update applies the frame's keys, then renders, then hands the
\* buffer to the display, then increments the counter, so that the image
\* shown in an update is rendered from the pose its keys produced.
C1_KeysBeforeRender ==
    (pc = "idle" /\ renders >= 1) =>
        /\ steps = <<"keys", "render", "display", "count">>
        /\ img.location = app.camera.location

\* C2: a snapshot is never applied partially with respect to a render: the
\* camera changes only inside the loop over the keys, a render starts only
\* when no key of a snapshot is left to handle, it leaves the camera as it
\* is, and the buffer it produces is rendered from that one pose.
C2_SnapshotNotSplit ==
    [][/\ (app'.camera # app.camera) => (pc = "keys" /\ pc' = "keys")
       /\ (renders' # renders) =>
             /\ pending = {}
             /\ app'.camera = app.camera
             /\ app'.buffer.location = app.camera.location]_vars

C2_Witness ==
    /\ pc = "image"
    /\ renders = 2
    /\ app.buffer.location.origin.x # InitialLocation.origin.x
    /\ app.buffer.location.direction.y # InitialLocation.direction.y

\* C3: the frame counter starts at 0, never decreases, grows by one in every
\* update, and after each update equals the number of renders so far and the
\* value passed to the FrameCounter overlay.
C3_FrameCounter ==
    /\ app.frame_count = 0
    /\ [](pc = "idle" =>
            /\ app.frame_count = renders
            /\ shown = app.frame_count
            /\ app.frame_counter.frame_count = app.frame_count)
    /\ [][/\ app'.frame_count >= app.frame_count
          /\ pc = "count" => app'.frame_count = app.frame_count + 1
          /\ pc # "count" => app'.frame_count = app.frame_count]_vars

C3_Witness == pc = "idle" /\ app.frame_count = 2 /\ renders = 2 /\ shown = 2

\* C4: handling W, S, A, D, Z or X moves exactly the named component of the
\* origin by +0.1 or -0.1 (one float addition) and leaves the other two
\* components and the direction as they are; a key with no arm leaves the
\* camera as it is.
C4_TranslationKeys ==
    [][\A k \in Keys \ {"ArrowLeft", "ArrowRight"} :
          KeyStep(k) =>
             /\ MovedBy(Origin.x, Origin'.x, Delta(k)[1])
             /\ MovedBy(Origin.y, Origin'.y, Delta(k)[2])
             /\ MovedBy(Origin.z, Origin'.z, Delta(k)[3])
             /\ Direction' = Direction
             /\ Delta(k) = <<0, 0, 0>> => app'.camera = app.camera]_vars

C4_Witness ==
    /\ LoopDone
    /\ keys_down = {"A", "Space"}
    /\ Origin.y < pose0.origin.y
    /\ Origin.x = pose0.origin.x

C6_RotationAccumulates ==
    (pc = "idle" /\ renders >= 1) =>
        /\ keys_down = {"ArrowLeft"} =>
              AngleDist(Atan2(Direction.y, Direction.x), 0 - renders * Step) <= AngTol
        /\ keys_down = {"ArrowRight"} =>
              AngleDist(Atan2(Direction.y, Direction.x), renders * Step) <= AngTol
        /\ (keys_down = {"ArrowRight"} /\ renders = 628) =>
              /\ Abs(Direction.x - S) <= Hundredth
              /\ Abs(Direction.y) <= Hundredth
              /\ Direction.z = 0

C6_Witness ==
    /\ pc = "idle"
    /\ renders = 628
    /\ keys_down = {"ArrowRight"}
    /\ Direction.y < 0

\* C7: translation accumulates once per frame: after n frames with only W
\* held the origin is (-10 + 0.1 n, 0, 0) up to the rounding of the n float
\* additions (one spacing each), y, z and the direction are as at the start;
\* after ten frames the origin is (-9, 0, 0).
C7_TranslationAccumulates ==
    pc = "idle" =>
        /\ Abs(Origin.x - ((0 - 10) * F32One + renders * Tenth)) <= renders * F32Ulp
        /\ Origin.y = 0
        /\ Origin.z = 0
        /\ Direction = InitialLocation.direction
        /\ renders = 10 => Abs(Origin.x - (0 - 9) * F32One) <= 10 * F32Ulp

C7_Witness == pc = "idle" /\ renders = 10 /\ Origin.x > (0 - 10) * F32One + 9 * Tenth

\* C8: for a buffer of H >= 1 rows of W pixels each, buffer_to_image gives
\* an image of size [W, H] whose data has 4 W H bytes, the four bytes of
\* pixel (row, col) at offsets 4 (row W + col) .. 4 (row W + col) + 3; the
\* buffer of a new RenderApp has H = 800 and W = 500.
C8_RowMajorImage ==
    /\ app.buffer.rows = 800 /\ app.buffer.cols = 500
    /\ image.size # <<0, 0>> =>
          LET H == Len(grid)
              W == Len(grid[1])
          IN  /\ image.size = <<W, H>>
              /\ Len(image.data) = 4 * W * H
              /\ \A row \in 0..(H - 1) : \A col \in 0..(W - 1) : \A c \in 0..3 :
                    image.data[4 * (row * W + col) + c + 1]
                       = to_srgba_unmultiplied(grid[row + 1][col + 1])[c + 1]

C8_Witness ==
    /\ image.size # <<0, 0>>
    /\ Len(grid) = 2
    /\ Len(grid[1]) = 1
    /\ grid[1][1] = "white"
    /\ grid[2][1] = "clear"
    /\ image.size = <<1, 2>>

\* C9: the scene built at start-up is never modified, the camera's width and
\* height and the z of its direction never change, and the buffer is always
\* rendered from that scene.
C9_SceneImmutable ==
    /\ [](/\ app.scene = "pondering_orbs"
          /\ app.camera.width = 500 /\ app.camera.height = 800
          /\ app.buffer.rendered => app.buffer.scene = "pondering_orbs")
    /\ [][/\ app'.scene = app.scene
          /\ app'.camera.width = app.camera.width
          /\ app'.camera.height = app.camera.height
          /\ Direction'.z = Direction.z]_vars

C9_Witness ==
    /\ pc = "idle"
    /\ renders = 2
    /\ app.buffer.rendered
    /\ Origin.z # 0
    /\ Direction.x # S

============================================================================
